---- MODULE Spec2Model ----
(***************************************************************************)
(* A model of the encryption side of dexios:                               *)
(*   src/src/encrypt/crypto.rs     encrypt_bytes_memory_mode,              *)
(*                                 encrypt_bytes_stream_mode               *)
(*   src/src/encrypt.rs            encrypt_file                            *)
(*   src/src/global/parameters.rs  encrypt_additional_params               *)
(* One behaviour is one call of one entry point (fn), from its arguments   *)
(* (Init) to its return (result # "running").  Every fallible step of the  *)
(* code has a succeeding and a failing outcome.                            *)
(***************************************************************************)
EXTENDS Integers, Sequences, FiniteSets, TLC

(* ------------------------------------------------------------------ *)
(* Bounds of the model                                                 *)
(* ------------------------------------------------------------------ *)

\* BLOCK_SIZE of crate::global, scaled down (the source value is 1 MiB).
BLOCK_SIZE == 2

\* Longest plaintext / input file, in bytes.
MaxLen == 4

\* Number of distinct values the random generator can return for a salt
\* or a nonce.
MaxRand == 2

\* Longest text of the --aead argument, in characters.
MaxArgLen == 2

\* Most rounds of the password loop of encrypt_file.
MaxPrompts == 2

(* ------------------------------------------------------------------ *)
(* Program constants                                                   *)
(* ------------------------------------------------------------------ *)

\* crate::global::VERSION, the header version written by this build.
VERSION == 1

\* Length of the authentication tag every AEAD output carries.
TAG_LEN == 16

\* dexios_core::primitives::ALGORITHMS, in ordinal order.
ALGORITHMS == <<"XChaCha20Poly1305", "Aes256Gcm", "DeoxysII256">>

Algorithm == {"Aes256Gcm", "XChaCha20Poly1305", "DeoxysII256"}

None == "None"

Byte == {0, 1}

Min(a, b) == IF a < b THEN a ELSE b

SeqsUpTo(S, n) == UNION {[1..k -> S] : k \in 0..n}

Plaintexts == SeqsUpTo(Byte, MaxLen)

RawKeys == {<<>>, <<1>>}

Rand == 1..MaxRand

\* Flatten: the concatenation of a sequence of sequences.
RECURSIVE Concat(_)
Concat(ss) == IF ss = <<>> THEN <<>> ELSE Head(ss) \o Concat(Tail(ss))

IsPrefix(s, t) == Len(s) <= Len(t) /\ SubSeq(t, 1, Len(s)) = s

VARIABLES
    fn,             \* the entry point called
    pc,             \* position in its body
    result,         \* "running", "Ok", "Err" or "panic"
    error,          \* the step that failed, "none" while none has
    \* arguments
    data,           \* plaintext (memory mode) / contents of the input file
    raw_key,        \* the raw key bytes
    bench,          \* BenchMode
    hash,           \* HashMode
    algorithm,      \* Algorithm
    \* locals of the pipelines
    salt,
    nonce,
    header,
    signature,
    key,
    streams,        \* the streaming AEAD object
    pos,            \* read cursor of the input File
    buffer,         \* [u8; BLOCK_SIZE]
    read_count,
    encrypted_data, \* the ciphertext of the current block / of the data
    hasher,         \* the bytes folded into the blake3 hasher, as items
    \* effects
    output,         \* items written to the output sink, in order
    flushed,        \* output.flush() was called and succeeded
    digest,         \* the digest reported to the user, NoValue if none
    secrets,        \* state of every holder of raw-key or derived-key bytes
    \* history
    calls,          \* streaming-AEAD operations invoked, in order
    blocks,         \* plaintext slices handed to the AEAD, in order
    emitted,        \* ciphertexts the AEAD returned, in order
    reads,          \* number of input.read calls
    rounds,         \* completed iterations of the block loop
    short_read,     \* some read returned fewer bytes than it could have
    \* encrypt_file
    fs,             \* path -> contents (Missing: no such file)
    input,          \* input path
    keyfile,        \* keyfile path ("" when absent)
    prompts,        \* password pairs prompted so far
    \* encrypt_additional_params
    aead,           \* the --aead argument
    chosen          \* the returned Algorithm

args == <<fn, bench, hash, algorithm, fs, input, keyfile, aead>>
locals == <<salt, nonce, header, signature, key, streams, pos, buffer,
            read_count, encrypted_data, hasher>>
effects == <<output, flushed, digest>>
history == <<calls, blocks, emitted, reads, rounds, short_read>>
vars == <<args, data, raw_key, pc, result, error, locals, effects, secrets,
          history, prompts, chosen>>

(* ------------------------------------------------------------------ *)
(* Values                                                              *)
(* ------------------------------------------------------------------ *)

\* The absent value of a record-valued variable.
NoValue == [nil |-> TRUE]

IsNil(x) == "nil" \in DOMAIN x

\* HeaderType { header_version, cipher_mode, algorithm }
HeaderType(mode, alg) ==
    [header_version |-> VERSION, cipher_mode |-> mode, algorithm |-> alg]

\* Header { salt, nonce, header_type }
Header(s, n, ht) == [salt |-> s, nonce |-> n, header_type |-> ht]

\* NonceLen with the Deoxys-II arm generating a 16-byte array.
NonceLen_Deoxys16(alg) ==
    CASE alg = "Aes256Gcm" -> 12
      [] alg = "XChaCha20Poly1305" -> 24
      [] alg = "DeoxysII256" -> 16

\* The nonce array each arm of encrypt_bytes_memory_mode generates:
\* gen::<[u8; 12]>, gen::<[u8; 24]>, gen::<[u8; 15]>.
NonceLen(alg) ==
    CASE alg = "Aes256Gcm" -> 12
      [] alg = "XChaCha20Poly1305" -> 24
      [] alg = "DeoxysII256" -> 15

\* StdRng::from_entropy().gen::<[u8; N]>(): one of the values the
\* generator can return, of the arm's length.
gen_nonce(alg, r) == [len |-> NonceLen(alg), id |-> r]

\* gen_salt(): one of the values the generator can return.
gen_salt(r) == [salt_id |-> r]

\* argon2_hash(raw_key, &salt, &header_version): the derived key is a
\* function of exactly these three.
argon2_hash(rk, s, v) == [raw |-> rk, salt |-> s, version |-> v]

\* sign(&header, key): the MAC of the header under the derived key.
sign(h, k) == [mac_of |-> h, mac_key |-> k]

\* cipher.encrypt(nonce, data): the one-shot AEAD output.
encrypt(alg, k, n, pt) ==
    [alg |-> alg, ct_key |-> k, ct_nonce |-> n, pt |-> pt]

\* The streaming AEAD object init_encryption_stream returns.
new_stream(alg, k, n) ==
    [state |-> "Flowing", counter |-> 0, alg |-> alg,
     st_key |-> k, st_nonce |-> n]

\* The ciphertext block of the stream s for the plaintext block pt.
stream_block(s, pt, last) ==
    [counter |-> s.counter, last |-> last, ct_key |-> s.st_key,
     ct_nonce |-> s.st_nonce, pt |-> pt]

\* streams.encrypt_next(block): the stream after the call.
after_encrypt_next(s) == [s EXCEPT !.counter = s.counter + 1]

\* streams.encrypt_last(block): the stream after the call.
after_encrypt_last(s) == [s EXCEPT !.state = "Terminated"]

\* Length in bytes of an AEAD output: the plaintext and the tag.
CtLen(ct) == Len(ct.pt) + TAG_LEN

\* What the sink and the hasher receive, as items of the container.
HeaderItem(h) == [item |-> "header", v |-> h]
SignatureItem(sg) == [item |-> "signature", v |-> sg]
CiphertextItem(ct) == [item |-> "ciphertext", v |-> ct]

\* crate::header::write_to_file(output, &header, Some(signature)):
\* the header, then the signature right after it.
write_to_file(out, h, sg) == out \o <<HeaderItem(h), SignatureItem(sg)>>

\* output.write_all(&bytes)
write_all(out, ct) == Append(out, CiphertextItem(ct))

\* crate::header::hash(&mut hasher, &header, Some(signature)): folds the
\* bytes that appear on disk, the header and then the signature.
header_hash(hs, h, sg) == hs \o <<HeaderItem(h), SignatureItem(sg)>>

\* hasher.update(&bytes)
hasher_update(hs, ct) == Append(hs, CiphertextItem(ct))

\* hasher.finalize().to_hex().to_string(): the digest of what was folded.
finalize(hs) == [blake3 |-> hs]

(* ------------------------------------------------------------------ *)
(* Key material: every holder of raw-key or derived-key bytes           *)
(* ------------------------------------------------------------------ *)

Holders == {"raw_key", "key", "input", "input_validation", "buffer"}

\* The type that holds the bytes: the pipelines of crypto.rs take and
\* derive Secret<..> values, encrypt_file uses String, Vec<u8> and
\* [u8; 32].
Wrapper(f) == IF f \in {"memory", "stream"} THEN "Secret" ELSE "plain"

\* The state of a holder once it is dropped (or moved into a callee that
\* drops it): a Secret is zeroized on drop, a plain buffer is freed as is.
Dropped(f, st) ==
    IF st # "live" THEN st
    ELSE IF Wrapper(f) = "Secret" THEN "wiped" ELSE "unwiped"

\* Every holder in hs dropped.
DropAll(f, sec, hs) ==
    [h \in Holders |-> IF h \in hs THEN Dropped(f, sec[h]) ELSE sec[h]]

NoSecrets == [h \in Holders |-> "none"]

(* ------------------------------------------------------------------ *)
(* The arguments of a call                                             *)
(* ------------------------------------------------------------------ *)

Fns == {"memory", "stream", "file", "params"}

BenchMode == {"WriteToFilesystem", "BenchmarkInMemory"}

HashMode == {"CalculateHash", "NoHash"}

Paths == {"in", "kf"}

\* Contents of a file; Missing stands for a path that names no file.
Missing == <<-1>>
FileContents == {<<>>, <<0>>, <<1>>, Missing}

\* What a prompt can return; "" is the user pressing enter alone.
Passwords == {"", "p", "q"}

\* Characters an --aead argument is made of.
Chars == {"0", "1", "2", "3", "4", "+", "-", "x"}

\* The --aead argument: absent, present without a readable value, or
\* present with a text.
AeadArgs ==
    {[present |-> FALSE, has_value |-> FALSE, text |-> <<>>],
     [present |-> TRUE, has_value |-> FALSE, text |-> <<>>]}
    \cup {[present |-> TRUE, has_value |-> TRUE, text |-> t] :
             t \in SeqsUpTo(Chars, MaxArgLen)}

NoAead == [present |-> FALSE, has_value |-> FALSE, text |-> <<>>]

Pipeline(f) == f \in {"memory", "stream"}

Init ==
    /\ fn \in Fns
    /\ pc = "start"
    /\ result = "running"
    /\ error = "none"
    /\ data \in IF Pipeline(fn) THEN Plaintexts ELSE {<<>>}
    /\ raw_key \in IF Pipeline(fn) THEN RawKeys ELSE {<<>>}
    /\ bench \in IF Pipeline(fn) THEN BenchMode ELSE {"WriteToFilesystem"}
    /\ hash \in IF Pipeline(fn) THEN HashMode ELSE {"NoHash"}
    /\ algorithm \in IF Pipeline(fn) THEN Algorithm ELSE {"Aes256Gcm"}
    /\ salt = NoValue
    /\ nonce = NoValue
    /\ header = NoValue
    /\ signature = NoValue
    /\ key = NoValue
    /\ streams = NoValue
    /\ pos = 0
    /\ buffer = [i \in 1..BLOCK_SIZE |-> 0]
    /\ read_count = 0
    /\ encrypted_data = NoValue
    /\ hasher = <<>>
    /\ output = <<>>
    /\ flushed = FALSE
    /\ digest = NoValue
    /\ secrets = IF Pipeline(fn)
                 THEN [NoSecrets EXCEPT !["raw_key"] = "live"]
                 ELSE NoSecrets
    /\ calls = <<>>
    /\ blocks = <<>>
    /\ emitted = <<>>
    /\ reads = 0
    /\ rounds = 0
    /\ short_read = FALSE
    /\ fs \in IF fn = "file" THEN [Paths -> FileContents]
              ELSE {[q \in Paths |-> Missing]}
    /\ input \in IF fn = "file" THEN Paths ELSE {"in"}
    /\ keyfile \in IF fn = "file" THEN Paths \cup {""} ELSE {""}
    /\ prompts = <<>>
    /\ aead \in IF fn = "params" THEN AeadArgs ELSE {NoAead}
    /\ chosen = None

\* A return of the entry point: its result, the step that failed, and
\* every local still alive dropped.
Return(res, err) ==
    /\ result' = res
    /\ error' = err
    /\ pc' = "done"
    /\ secrets' = DropAll(fn, secrets, Holders)

\* A step that goes on to the position next.
Goto(next) ==
    /\ pc' = next
    /\ UNCHANGED <<result, error>>

At(f, at) == fn = f /\ pc = at /\ result = "running"

\* WriteEnabled with the flag ignored: the sink is always written.
WriteEnabled_Always(b) == TRUE

\* bench == BenchMode::WriteToFilesystem
WriteEnabled(b) == b = "WriteToFilesystem"

\* hash == HashMode::CalculateHash
HashEnabled(h) == h = "CalculateHash"

(* ------------------------------------------------------------------ *)
(* encrypt_bytes_stream_mode                                           *)
(* ------------------------------------------------------------------ *)

\* init_encryption_stream(raw_key, header_type): generates the salt and
\* the base nonce, derives the key, builds the header from the header
\* type it was given, signs it and builds the stream.
init_encryption_stream(rk, ht, r1, r2) ==
    LET s == gen_salt(r1)
        n == [base |-> TRUE, id |-> r2]
        k == argon2_hash(rk, s, ht.header_version)
        h == Header(s, n, ht)
    IN  [streams |-> new_stream(ht.algorithm, k, n),
         header |-> h,
         signature |-> sign(h, k),
         key |-> k]

\* let (mut streams, header, signature) =
\*     init_encryption_stream(raw_key, header_type)?;
stream_init ==
    /\ At("stream", "start")
    /\ \/ \E r1 \in Rand, r2 \in Rand :
            LET got == init_encryption_stream(
                           raw_key, HeaderType("StreamMode", algorithm),
                           r1, r2)
            IN  /\ streams' = got.streams
                /\ header' = got.header
                /\ signature' = got.signature
                /\ key' = got.key
                /\ salt' = got.header.salt
                /\ nonce' = got.header.nonce
                /\ secrets' = [secrets EXCEPT !["raw_key"] = Dropped(fn, @),
                                              !["key"] = Dropped(fn, "live")]
                /\ Goto("write_header")
       \/ /\ Return("Err", "init")
          /\ UNCHANGED <<streams, header, signature, key, salt, nonce>>
    /\ UNCHANGED <<args, data, raw_key, pos, buffer, read_count, encrypted_data,
                   hasher, effects, history, prompts, chosen>>

\* stream_write_header with the header write left for after the loop.
stream_write_header_Deferred ==
    /\ At("stream", "write_header")
    /\ Goto("hash_header")
    /\ UNCHANGED <<args, data, raw_key, locals, effects, secrets, history,
                   prompts, chosen>>

\* if bench == WriteToFilesystem { write_to_file(output, &header, ..)?; }
stream_write_header ==
    /\ At("stream", "write_header")
    /\ \/ /\ WriteEnabled(bench)
          /\ output' = write_to_file(output, header, signature)
          /\ Goto("hash_header")
          /\ UNCHANGED secrets
       \/ /\ WriteEnabled(bench)
          /\ Return("Err", "write_header")
          /\ UNCHANGED output
       \/ /\ ~WriteEnabled(bench)
          /\ Goto("hash_header")
          /\ UNCHANGED <<output, secrets>>
    /\ UNCHANGED <<args, data, raw_key, locals, flushed, digest, history, prompts,
                   chosen>>

\* if hash == CalculateHash { header::hash(&mut hasher, &header, ..); }
stream_hash_header ==
    /\ At("stream", "hash_header")
    /\ hasher' = IF HashEnabled(hash)
                 THEN header_hash(hasher, header, signature) ELSE hasher
    /\ Goto("read")
    /\ UNCHANGED <<args, data, raw_key, salt, nonce, header, signature, key,
                   streams, pos, buffer, read_count, encrypted_data, effects,
                   secrets, history, prompts, chosen>>

\* The counts input.read(&mut buffer) may return with rem bytes left in
\* the file: 0 only at the end of the input, otherwise any count up to
\* the buffer's length and the bytes left.
ReadCounts(rem) == IF rem = 0 THEN {0} ELSE 1..Min(BLOCK_SIZE, rem)

\* The buffer after a read of n bytes at cursor p: the bytes read
\* overwrite its start, the rest keeps what it held.
ReadInto(buf, src, p, n) ==
    [i \in 1..BLOCK_SIZE |-> IF i <= n THEN src[p + i] ELSE buf[i]]

\* let read_count = input.read(&mut buffer).context(..)?;
stream_read ==
    /\ At("stream", "read")
    /\ reads' = reads + 1
    /\ \/ \E n \in ReadCounts(Len(data) - pos) :
            /\ read_count' = n
            /\ buffer' = ReadInto(buffer, data, pos, n)
            /\ pos' = pos + n
            /\ short_read' =
                   (short_read \/ n < Min(BLOCK_SIZE, Len(data) - pos))
            /\ Goto("encrypt")
            /\ UNCHANGED secrets
       \/ /\ Return("Err", "read")
          /\ UNCHANGED <<read_count, buffer, pos, short_read>>
    /\ UNCHANGED <<args, data, raw_key, salt, nonce, header, signature, key,
                   streams, encrypted_data, hasher, effects, calls, blocks,
                   emitted, rounds, prompts, chosen>>

\* IsFullRead taking any non-empty read for a full block.
IsFullRead_AnyBytes(rc) == rc > 0

\* IsFullRead taking every read, the empty one included, for a full block:
\* the encrypt_last branch is never taken.
IsFullRead_Always(rc) == TRUE

\* if read_count == BLOCK_SIZE
IsFullRead(rc) == rc = BLOCK_SIZE

\* The slice the branch hands to the AEAD: buffer.as_slice() to
\* encrypt_next, &buffer[..read_count] to encrypt_last.
BlockOf(buf, rc) == IF IsFullRead(rc) THEN buf ELSE SubSeq(buf, 1, rc)

\* The operation the branch invokes.
StreamOp(rc) == IF IsFullRead(rc) THEN "encrypt_next" ELSE "encrypt_last"

\* match streams.encrypt_next(..) / streams.encrypt_last(..)
\*     { Ok(bytes) => bytes, Err(_) => return Err(..) }
\* A stream that is not Flowing refuses the call.
stream_encrypt ==
    /\ At("stream", "encrypt")
    /\ calls' = Append(calls, StreamOp(read_count))
    /\ blocks' = Append(blocks, BlockOf(buffer, read_count))
    /\ \/ /\ streams.state = "Flowing"
          /\ encrypted_data' =
                 stream_block(streams, BlockOf(buffer, read_count),
                              ~IsFullRead(read_count))
          /\ streams' = IF IsFullRead(read_count)
                        THEN after_encrypt_next(streams)
                        ELSE after_encrypt_last(streams)
          /\ emitted' = Append(emitted, encrypted_data')
          /\ Goto("write_block")
          /\ UNCHANGED secrets
       \/ /\ Return("Err", "encrypt")
          /\ UNCHANGED <<encrypted_data, streams, emitted>>
    /\ UNCHANGED <<args, data, raw_key, salt, nonce, header, signature, key, pos,
                   buffer, read_count, hasher, effects, reads, rounds,
                   short_read, prompts, chosen>>

\* stream_write_block with the error of write_all ignored.
stream_write_block_IgnoreError ==
    /\ At("stream", "write_block")
    /\ \/ /\ WriteEnabled(bench)
          /\ output' = write_all(output, encrypted_data)
       \/ /\ WriteEnabled(bench)
          /\ UNCHANGED output
       \/ /\ ~WriteEnabled(bench)
          /\ UNCHANGED output
    /\ Goto("hash_block")
    /\ UNCHANGED <<args, data, raw_key, locals, flushed, digest, secrets,
                   history, prompts, chosen>>

\* if bench == WriteToFilesystem { output.write_all(&encrypted_data)?; }
stream_write_block ==
    /\ At("stream", "write_block")
    /\ \/ /\ WriteEnabled(bench)
          /\ output' = write_all(output, encrypted_data)
          /\ Goto("hash_block")
          /\ UNCHANGED secrets
       \/ /\ WriteEnabled(bench)
          /\ Return("Err", "write_block")
          /\ UNCHANGED output
       \/ /\ ~WriteEnabled(bench)
          /\ Goto("hash_block")
          /\ UNCHANGED <<output, secrets>>
    /\ UNCHANGED <<args, data, raw_key, locals, flushed, digest, history, prompts,
                   chosen>>

\* LoopContinues without the break of the encrypt_last branch.
LoopContinues_NoBreak(rc) == TRUE

\* stream_hash_block with the update inside the branch that writes.
stream_hash_block_WhenWritten ==
    /\ At("stream", "hash_block")
    /\ hasher' = IF HashEnabled(hash) /\ WriteEnabled(bench)
                 THEN hasher_update(hasher, encrypted_data) ELSE hasher
    /\ rounds' = rounds + 1
    /\ Goto(IF IsFullRead(read_count) THEN "read" ELSE "flush")
    /\ UNCHANGED <<args, data, raw_key, salt, nonce, header, signature, key,
                   streams, pos, buffer, read_count, encrypted_data, effects,
                   secrets, calls, blocks, emitted, reads, short_read,
                   prompts, chosen>>

\* The loop goes round again after the encrypt_next branch; the
\* encrypt_last branch ends in break.
LoopContinues(rc) == IsFullRead(rc)

\* if hash == CalculateHash { hasher.update(&encrypted_data); }
\* and the end of the iteration.
stream_hash_block ==
    /\ At("stream", "hash_block")
    /\ hasher' = IF HashEnabled(hash)
                 THEN hasher_update(hasher, encrypted_data) ELSE hasher
    /\ rounds' = rounds + 1
    /\ Goto(IF LoopContinues(read_count) THEN "read" ELSE "flush")
    /\ UNCHANGED <<args, data, raw_key, salt, nonce, header, signature, key,
                   streams, pos, buffer, read_count, encrypted_data, effects,
                   secrets, calls, blocks, emitted, reads, short_read,
                   prompts, chosen>>

\* if bench == WriteToFilesystem { output.flush().context(..)?; }
stream_flush ==
    /\ At("stream", "flush")
    /\ \/ /\ WriteEnabled(bench)
          /\ flushed' = TRUE
          /\ Goto("finalize")
          /\ UNCHANGED secrets
       \/ /\ WriteEnabled(bench)
          /\ Return("Err", "flush")
          /\ UNCHANGED flushed
       \/ /\ ~WriteEnabled(bench)
          /\ Goto("finalize")
          /\ UNCHANGED <<flushed, secrets>>
    /\ UNCHANGED <<args, data, raw_key, locals, output, digest, history, prompts,
                   chosen>>

\* if hash == CalculateHash { let hash = hasher.finalize()..; success!(..) }
\* Ok(())
stream_finalize ==
    /\ At("stream", "finalize")
    /\ digest' = IF HashEnabled(hash) THEN finalize(hasher) ELSE digest
    /\ Return("Ok", "none")
    /\ UNCHANGED <<args, data, raw_key, locals, output, flushed, history, prompts,
                   chosen>>

encrypt_bytes_stream_mode ==
    \/ stream_init
    \/ stream_write_header
    \/ stream_hash_header
    \/ stream_read
    \/ stream_encrypt
    \/ stream_write_block
    \/ stream_hash_block
    \/ stream_flush
    \/ stream_finalize

(* ------------------------------------------------------------------ *)
(* encrypt_bytes_memory_mode                                           *)
(* ------------------------------------------------------------------ *)

\* let salt = gen_salt(); let header_type = HeaderType {..};
\* and, in the arm of the algorithm, the nonce and the header.
memory_setup ==
    /\ At("memory", "start")
    /\ \E r1 \in Rand, r2 \in Rand :
          /\ salt' = gen_salt(r1)
          /\ nonce' = gen_nonce(algorithm, r2)
          /\ header' = Header(salt', nonce',
                              HeaderType("MemoryMode", algorithm))
    /\ Goto("argon2_hash")
    /\ UNCHANGED <<args, data, raw_key, signature, key, streams, pos, buffer,
                   read_count, encrypted_data, hasher, effects, secrets,
                   history, prompts, chosen>>

\* let key = argon2_hash(raw_key, &salt, &header.header_type.header_version)?;
\* raw_key is moved into the call.
memory_argon2_hash ==
    /\ At("memory", "argon2_hash")
    /\ \/ /\ key' = argon2_hash(raw_key, salt,
                                header.header_type.header_version)
          /\ secrets' = [secrets EXCEPT !["raw_key"] = Dropped(fn, @),
                                        !["key"] = "live"]
          /\ Goto("new_cipher")
       \/ /\ Return("Err", "argon2_hash")
          /\ UNCHANGED key
    /\ UNCHANGED <<args, data, raw_key, salt, nonce, header, signature, streams,
                   pos, buffer, read_count, encrypted_data, hasher, effects,
                   history, prompts, chosen>>

\* let cipher = match <alg>::new_from_slice(key.expose())
\*     { Ok(cipher) => cipher, Err(_) => return Err(..) };
memory_new_cipher ==
    /\ At("memory", "new_cipher")
    /\ \/ /\ Goto("sign")
          /\ UNCHANGED secrets
       \/ Return("Err", "new_cipher")
    /\ UNCHANGED <<args, data, raw_key, locals, effects, history, prompts, chosen>>

\* let signature = sign(&header, key)?;   key is moved into the call.
memory_sign ==
    /\ At("memory", "sign")
    /\ \/ /\ signature' = sign(header, key)
          /\ secrets' = [secrets EXCEPT !["key"] = Dropped(fn, @)]
          /\ Goto("encrypt")
       \/ /\ Return("Err", "sign")
          /\ UNCHANGED signature
    /\ UNCHANGED <<args, data, raw_key, salt, nonce, header, key, streams, pos,
                   buffer, read_count, encrypted_data, hasher, effects,
                   history, prompts, chosen>>

\* memory_encrypt with the header write hoisted above the encryption.
memory_encrypt_HeaderFirst ==
    /\ At("memory", "encrypt")
    /\ output' = IF WriteEnabled(bench)
                 THEN write_to_file(output, header, signature) ELSE output
    /\ \/ /\ encrypted_data' = encrypt(algorithm, key, nonce, data)
          /\ emitted' = Append(emitted, encrypted_data')
          /\ Goto("write")
          /\ UNCHANGED secrets
       \/ /\ Return("Err", "encrypt")
          /\ UNCHANGED <<encrypted_data, emitted>>
    /\ UNCHANGED <<args, data, raw_key, salt, nonce, header, signature, key,
                   streams, pos, buffer, read_count, hasher, flushed, digest,
                   calls, blocks, reads, rounds, short_read, prompts, chosen>>

\* let encrypted_bytes = match cipher.encrypt(nonce, data.expose()..)
\*     { Ok(bytes) => bytes, Err(_) => return Err(..) };
memory_encrypt ==
    /\ At("memory", "encrypt")
    /\ \/ /\ encrypted_data' = encrypt(algorithm, key, nonce, data)
          /\ emitted' = Append(emitted, encrypted_data')
          /\ Goto("write")
          /\ UNCHANGED secrets
       \/ /\ Return("Err", "encrypt")
          /\ UNCHANGED <<encrypted_data, emitted>>
    /\ UNCHANGED <<args, data, raw_key, salt, nonce, header, signature, key,
                   streams, pos, buffer, read_count, hasher, effects, calls,
                   blocks, reads, rounds, short_read, prompts, chosen>>

\* MemoryModeWrite with the ciphertext written before the header.
MemoryModeWrite_CiphertextFirst(out, h, sg, ct) ==
    write_to_file(write_all(out, ct), h, sg)

\* write_to_file(output, &header, Some(signature.clone()))?;
\* output.write_all(&encrypted_bytes)?;
MemoryModeWrite(out, h, sg, ct) == write_all(write_to_file(out, h, sg), ct)

\* if bench == WriteToFilesystem { write_to_file(..)?; write_all(..)?; }
memory_write ==
    /\ At("memory", "write")
    /\ \/ /\ WriteEnabled(bench)
          /\ output' = MemoryModeWrite(output, header, signature,
                                       encrypted_data)
          /\ Goto("hash")
          /\ UNCHANGED secrets
       \/ /\ WriteEnabled(bench)
          /\ Return("Err", "write_header")
          /\ UNCHANGED output
       \/ /\ WriteEnabled(bench)
          /\ output' = write_to_file(output, header, signature)
          /\ Return("Err", "write_all")
       \/ /\ ~WriteEnabled(bench)
          /\ Goto("hash")
          /\ UNCHANGED <<output, secrets>>
    /\ UNCHANGED <<args, data, raw_key, locals, flushed, digest, history, prompts,
                   chosen>>

\* header::hash(&mut hasher, &header, Some(signature));
\* hasher.update(&encrypted_bytes);
MemoryModeHash(hs, h, sg, ct) == hasher_update(header_hash(hs, h, sg), ct)

\* if hash == CalculateHash { ..; let hash = hasher.finalize()..; }
\* Ok(())
memory_hash ==
    /\ At("memory", "hash")
    /\ hasher' = IF HashEnabled(hash)
                 THEN MemoryModeHash(hasher, header, signature,
                                     encrypted_data)
                 ELSE hasher
    /\ digest' = IF HashEnabled(hash) THEN finalize(hasher') ELSE digest
    /\ Return("Ok", "none")
    /\ UNCHANGED <<args, data, raw_key, salt, nonce, header, signature, key,
                   streams, pos, buffer, read_count, encrypted_data, output,
                   flushed, history, prompts, chosen>>

encrypt_bytes_memory_mode ==
    \/ memory_setup
    \/ memory_argon2_hash
    \/ memory_new_cipher
    \/ memory_sign
    \/ memory_encrypt
    \/ memory_write
    \/ memory_hash

(* ------------------------------------------------------------------ *)
(* encrypt_file                                                        *)
(* ------------------------------------------------------------------ *)

\* input.as_bytes().to_vec(): the UTF-8 bytes of the password.
as_bytes(pw) ==
    CASE pw = "" -> <<>>
      [] pw = "p" -> <<112>>
      [] pw = "q" -> <<113>>

\* base64::encode(x)
base64_encode(x) == [base64 |-> x]

\* ring::pbkdf2::derive(PBKDF2_HMAC_SHA512, 122880, &salt, &raw_key, &mut key)
pbkdf2_derive(s, rk) == [pbkdf2_raw |-> rk, pbkdf2_salt |-> s]

\* DexiosFile { salt, nonce, data }, as serde_json writes it.
DexiosFile(s, n, ct) ==
    [item |-> "json",
     v |-> [salt |-> base64_encode(s), nonce |-> base64_encode(n),
            data |-> base64_encode(ct)]]

\* The path the keyfile branch opens: File::open(input).
KeyfileOpened(inp, kf) == inp

\* let file = File::open(input)..?; reader.read_to_end(&mut data)..?;
file_read_input ==
    /\ At("file", "start")
    /\ \/ /\ fs[input] # Missing
          /\ data' = fs[input]
          /\ Goto(IF keyfile # "" THEN "keyfile" ELSE "prompt")
          /\ UNCHANGED secrets
       \/ /\ Return("Err", "read_input")
          /\ UNCHANGED data
    /\ UNCHANGED <<args, raw_key, locals, effects, history, prompts, chosen>>

\* file_prompt without the comparison: the first text is taken as the
\* password whatever the second one is.
file_prompt_NoValidation ==
    /\ At("file", "prompt")
    /\ Len(prompts) < MaxPrompts
    /\ \/ \E a \in Passwords, b \in Passwords :
            /\ prompts' = Append(prompts, <<a, b>>)
            /\ raw_key' = as_bytes(a)
            /\ secrets' =
                   [DropAll(fn, [secrets EXCEPT
                                    !["input"] = "live",
                                    !["input_validation"] = "live"],
                            {"input", "input_validation"})
                    EXCEPT !["raw_key"] = "live"]
            /\ Goto("derive")
       \/ /\ Return("Err", "prompt")
          /\ UNCHANGED <<raw_key, prompts>>
    /\ UNCHANGED <<args, data, locals, effects, history, chosen>>

\* One round of the password loop: two prompts, and break with raw_key
\* set when both texts are the same.
file_prompt ==
    /\ At("file", "prompt")
    /\ Len(prompts) < MaxPrompts
    /\ \/ \E a \in Passwords, b \in Passwords :
            /\ prompts' = Append(prompts, <<a, b>>)
            /\ IF a = b
               THEN /\ raw_key' = as_bytes(a)
                    /\ secrets' =
                           [DropAll(fn, [secrets EXCEPT
                                            !["input"] = "live",
                                            !["input_validation"] = "live"],
                                    {"input", "input_validation"})
                            EXCEPT !["raw_key"] = "live"]
                    /\ Goto("derive")
               ELSE /\ raw_key' = raw_key
                    /\ secrets' =
                           DropAll(fn, [secrets EXCEPT
                                           !["input"] = "live",
                                           !["input_validation"] = "live"],
                                   {"input", "input_validation"})
                    /\ Goto("prompt")
       \/ \* the first prompt fails
          /\ Return("Err", "prompt")
          /\ UNCHANGED <<raw_key, prompts>>
       \/ \* the second prompt fails, the first text in hand
          /\ result' = "Err"
          /\ error' = "prompt"
          /\ pc' = "done"
          /\ secrets' = DropAll(fn, [secrets EXCEPT !["input"] = "live"],
                                Holders)
          /\ UNCHANGED <<raw_key, prompts>>
    /\ UNCHANGED <<args, data, locals, effects, history, chosen>>

\* let file = File::open(input)..?; reader.read_to_end(&mut buffer)..?;
\* raw_key = buffer.clone();
file_keyfile ==
    /\ At("file", "keyfile")
    /\ \/ /\ fs[KeyfileOpened(input, keyfile)] # Missing
          /\ raw_key' = fs[KeyfileOpened(input, keyfile)]
          /\ secrets' = [secrets EXCEPT !["buffer"] = "live",
                                        !["raw_key"] = "live"]
          /\ Goto("derive")
       \/ /\ Return("Err", "keyfile")
          /\ UNCHANGED raw_key
    /\ UNCHANGED <<args, data, locals, effects, history, prompts, chosen>>

\* let mut key = [0u8; 32]; the salt; ring::pbkdf2::derive(..);
file_derive ==
    /\ At("file", "derive")
    /\ \E r \in Rand :
          /\ salt' = gen_salt(r)
          /\ key' = pbkdf2_derive(salt', raw_key)
    /\ secrets' = [secrets EXCEPT !["key"] = "live"]
    /\ Goto("encrypt")
    /\ UNCHANGED <<args, data, raw_key, nonce, header, signature, streams,
                   pos, buffer, read_count, encrypted_data, hasher, effects,
                   history, prompts, chosen>>

\* the nonce; cipher.encrypt(nonce, data.as_slice()).expect(..);
file_encrypt ==
    /\ At("file", "encrypt")
    /\ \/ \E r \in Rand :
            /\ nonce' = gen_nonce("Aes256Gcm", r)
            /\ encrypted_data' = encrypt("Aes256Gcm", key, nonce', data)
            /\ emitted' = Append(emitted, encrypted_data')
            /\ Goto("write")
            /\ UNCHANGED secrets
       \/ /\ Return("panic", "encrypt")
          /\ UNCHANGED <<nonce, encrypted_data, emitted>>
    /\ UNCHANGED <<args, data, raw_key, salt, header, signature, key,
                   streams, pos, buffer, read_count, hasher, effects, calls,
                   blocks, reads, rounds, short_read, prompts, chosen>>

\* let writer = File::create(output)..?;
\* serde_json::to_writer(&writer, &data)..?;  Ok(())
file_write ==
    /\ At("file", "write")
    /\ \/ /\ output' = <<DexiosFile(salt, nonce, encrypted_data)>>
          /\ Return("Ok", "none")
       \/ /\ Return("Err", "write")
          /\ UNCHANGED output
    /\ UNCHANGED <<args, data, raw_key, locals, flushed, digest, history,
                   prompts, chosen>>

encrypt_file ==
    \/ file_read_input
    \/ file_prompt
    \/ file_keyfile
    \/ file_derive
    \/ file_encrypt
    \/ file_write

(* ------------------------------------------------------------------ *)
(* encrypt_additional_params                                           *)
(* ------------------------------------------------------------------ *)

IsDigit(c) == c \in {"0", "1", "2", "3", "4"}

DigitOf(c) ==
    CASE c = "0" -> 0 [] c = "1" -> 1 [] c = "2" -> 2
      [] c = "3" -> 3 [] c = "4" -> 4

RECURSIVE Decimal(_, _)
Decimal(t, acc) ==
    IF t = <<>> THEN acc ELSE Decimal(Tail(t), 10 * acc + DigitOf(Head(t)))

ParseErr == [ok |-> FALSE, value |-> 0]

\* str::parse::<usize>(): an optional '+', then one or more decimal
\* digits and nothing else; no '-' for an unsigned type.
parse_usize(t) ==
    LET digits == IF t # <<>> /\ Head(t) = "+" THEN Tail(t) ELSE t
    IN  IF digits = <<>> \/ \E i \in 1..Len(digits) : ~IsDigit(digits[i])
        THEN ParseErr
        ELSE [ok |-> TRUE, value |-> Decimal(digits, 0)]

\* let provided_aead: usize = if is_present("aead")
\*     { value_of("aead").context(..)?.parse().context(..)? } else { 1 };
provided_aead(a) ==
    IF a.present
    THEN IF a.has_value THEN parse_usize(a.text) ELSE ParseErr
    ELSE [ok |-> TRUE, value |-> 1]

\* AeadRejected without the lower bound.
AeadRejected_NoLowerBound(n) == n > Len(ALGORITHMS)

\* if provided_aead < 1 || provided_aead > ALGORITHMS.len() { Err(..) }
AeadRejected(n) == n < 1 \/ n > Len(ALGORITHMS)

\* ALGORITHMS[i] of a slice indexed from 0: the element, or a panic when
\* i is out of range.
Index(arr, i) ==
    IF i \in 0..(Len(arr) - 1)
    THEN [ok |-> TRUE, value |-> arr[i + 1]]
    ELSE [ok |-> FALSE, value |-> None]

encrypt_additional_params ==
    /\ At("params", "start")
    /\ LET p == provided_aead(aead)
       IN  IF ~p.ok \/ AeadRejected(p.value)
           THEN /\ Return("Err", IF p.ok THEN "invalid_aead" ELSE "parse")
                /\ UNCHANGED chosen
           ELSE LET got == Index(ALGORITHMS, p.value - 1)
                IN  /\ chosen' = got.value
                    /\ Return(IF got.ok THEN "Ok" ELSE "panic",
                              IF got.ok THEN "none" ELSE "index")
    /\ UNCHANGED <<args, data, raw_key, locals, effects, history, prompts>>

Next ==
    \/ encrypt_bytes_memory_mode
    \/ encrypt_bytes_stream_mode
    \/ encrypt_file
    \/ encrypt_additional_params

Spec == Init /\ [][Next]_vars

\* The calls of encrypt_bytes_stream_mode alone.
StreamInit == Init /\ fn = "stream"

\* The call runs on one thread and every step of it returns: a call that
\* can take a step takes one.
StreamSpec ==
    /\ StreamInit
    /\ [][encrypt_bytes_stream_mode]_vars
    /\ WF_vars(encrypt_bytes_stream_mode)

(* ------------------------------------------------------------------ *)
(* Properties                                                          *)
(* ------------------------------------------------------------------ *)

Returned == result # "running"

\* The container of the call: header, signature, then every ciphertext
\* the AEAD returned, in the order it returned them.
Container ==
    <<HeaderItem(header), SignatureItem(signature)>>
        \o [i \in 1..Len(emitted) |-> CiphertextItem(emitted[i])]

\* The number of ciphertext items in a sequence of items.
CiphertextCount(items) ==
    Cardinality({i \in 1..Len(items) : items[i].item = "ciphertext"})

\* No streaming-AEAD operation follows an encrypt_last.
LastIsFinal(cs) ==
    \A i \in 1..Len(cs) : cs[i] = "encrypt_last" => i = Len(cs)

\* C1: in encrypt_bytes_stream_mode no streaming-AEAD operation is ever
\* invoked after an encrypt_last, and a call that returns Ok has invoked
\* encrypt_last exactly once, as its final operation, whatever the length
\* of the input (0 and exact multiples of BLOCK_SIZE included).
C1_LastOnceAndFinal ==
    fn = "stream" =>
        /\ LastIsFinal(calls)
        /\ result = "Ok" =>
              /\ Len(calls) >= 1
              /\ calls[Len(calls)] = "encrypt_last"
              /\ Cardinality({i \in 1..Len(calls) :
                                 calls[i] = "encrypt_last"}) = 1
              /\ streams.state = "Terminated"

\* An input of exactly one block encrypted to the end: one encrypt_next,
\* then the encrypt_last of the empty terminal block.
C1_Witness ==
    /\ fn = "stream"
    /\ result = "Ok"
    /\ Len(data) = BLOCK_SIZE
    /\ calls = <<"encrypt_next", "encrypt_last">>
    /\ blocks[2] = <<>>

\* C2: whenever encrypt_bytes_stream_mode returns Ok, every input byte
\* has been consumed when encrypt_last is called, and the blocks passed to
\* encrypt_next and encrypt_last, concatenated in call order, are the
\* whole input, for every reader (short reads included).
C2_BlocksAreWholeInput ==
    (fn = "stream" /\ result = "Ok") =>
        /\ pos = Len(data)
        /\ Concat(blocks) = data

C4_WritesInContainerOrder ==
    Pipeline(fn) =>
        /\ IsPrefix(output, Container)
        /\ Len(output) # 1
        /\ (fn = "stream" /\ WriteEnabled(bench) /\ emitted # <<>>) =>
              /\ Len(output) >= 2
              /\ Len(emitted) <= CiphertextCount(output) + 1
        /\ (fn = "stream" /\ WriteEnabled(bench) /\ pc = "encrypt") =>
              CiphertextCount(output) = Len(emitted)

\* A stream-mode call that has written the header, the signature and two
\* blocks.
C4_Witness ==
    /\ fn = "stream"
    /\ WriteEnabled(bench)
    /\ result = "Ok"
    /\ Len(output) = 4
    /\ output[1].item = "header"
    /\ output[2].item = "signature"
    /\ output[4] = CiphertextItem(emitted[2])

\* The ciphertext blocks of a stream-mode container as a function of the
\* input alone: the input cut every BLOCK_SIZE bytes, numbered from 0,
\* the last one flagged.
ExpectedStreamBlocks ==
    LET L == Len(data)
        n == L \div BLOCK_SIZE
    IN  [i \in 1..(n + 1) |->
            [counter |-> i - 1,
             last |-> (i = n + 1),
             ct_key |-> argon2_hash(raw_key, header.salt, VERSION),
             ct_nonce |-> header.nonce,
             pt |-> SubSeq(data, (i - 1) * BLOCK_SIZE + 1,
                           Min(i * BLOCK_SIZE, L))]]

\* C5: when a pipeline returns Ok with hashing enabled, what was folded
\* into the hasher is the header, the signature and every ciphertext in
\* order, the digest reported is the digest of exactly that, and it is
\* what the sink holds if writing is enabled; with a reader that does not
\* read short it is a function of the input, the key, the salt and the
\* nonce alone, so the same with writing enabled or disabled.  Without
\* hashing nothing is folded or reported.
C5_HashIsContainer ==
    (Pipeline(fn) /\ result = "Ok") =>
        IF HashEnabled(hash)
        THEN /\ hasher = Container
             /\ digest = [blake3 |-> Container]
             /\ WriteEnabled(bench) => output = hasher
             /\ (fn = "stream" /\ ~short_read) =>
                   emitted = ExpectedStreamBlocks
             /\ fn = "memory" =>
                   emitted =
                       <<[alg |-> algorithm,
                          ct_key |-> argon2_hash(raw_key, header.salt,
                                                 VERSION),
                          ct_nonce |-> header.nonce, pt |-> data]>>
        ELSE hasher = <<>> /\ IsNil(digest)

\* A digest reported for a container that was never written.
C5_Witness ==
    /\ Pipeline(fn)
    /\ result = "Ok"
    /\ HashEnabled(hash)
    /\ ~WriteEnabled(bench)
    /\ output = <<>>
    /\ Len(hasher) >= 3
    /\ digest = [blake3 |-> hasher]

\* C6: at every return of an encryption entry point, on the Ok path and
\* on every error path, no holder of raw-key or derived-key bytes is
\* alive or was released without being zeroized.
C6_KeyMaterialWiped ==
    (fn \in {"memory", "stream", "file"} /\ Returned) =>
        \A h \in Holders : secrets[h] \in {"none", "wiped"}

\* C7: when encrypt_file is given a keyfile, the raw key fed to the KDF
\* is the contents of the file at the keyfile path, and the contents of
\* the input file are the plaintext.
C7_KeyfileIsRawKey ==
    (fn = "file" /\ keyfile # "" /\ ~IsNil(key)) =>
        /\ key.pbkdf2_raw = fs[keyfile]
        /\ data = fs[input]

\* The nonce length the container format fixes for each algorithm.
FormatNonceLen ==
    [a \in Algorithm |->
        IF a = "Aes256Gcm" THEN 12
        ELSE IF a = "XChaCha20Poly1305" THEN 24 ELSE 15]

\* The headers among a sequence of items.
HeadersIn(items) ==
    {items[i].v : i \in {j \in 1..Len(items) : items[j].item = "header"}}

\* C8: the header of a pipeline carries VERSION, the caller's algorithm
\* and the mode of the pipeline, and it is the only header written or
\* hashed; in memory mode its nonce has the length of the algorithm (12,
\* 24, 15) and is the nonce of the encryption, and its salt is the salt
\* the key was derived with.
C8_HeaderDeterminedByCall ==
    (Pipeline(fn) /\ ~IsNil(header)) =>
        /\ header.header_type.header_version = VERSION
        /\ header.header_type.algorithm = algorithm
        /\ header.header_type.cipher_mode =
               (IF fn = "memory" THEN "MemoryMode" ELSE "StreamMode")
        /\ HeadersIn(output) \subseteq {header}
        /\ HeadersIn(hasher) \subseteq {header}
        /\ fn = "memory" =>
              /\ header.nonce.len = FormatNonceLen[algorithm]
              /\ header.nonce = nonce
              /\ header.salt = salt
              /\ ~IsNil(key) => key.salt = header.salt
              /\ ~IsNil(encrypted_data) =>
                    /\ encrypted_data.ct_nonce = header.nonce
                    /\ encrypted_data.ct_key.salt = header.salt

\* A Deoxys-II-256 container written in memory mode.
C8_Witness ==
    /\ fn = "memory"
    /\ algorithm = "DeoxysII256"
    /\ result = "Ok"
    /\ Len(output) = 3
    /\ output[1].v.nonce.len = 15
    /\ output[3].v.ct_nonce = output[1].v.nonce

\* The first n ciphertexts returned, as items.
FirstBlocks(n) == [i \in 1..n |-> CiphertextItem(emitted[i])]

RECURSIVE Pow10(_)
Pow10(k) == IF k = 0 THEN 1 ELSE 10 * Pow10(k - 1)

\* The sum of f over the set S of integers.
RECURSIVE Sum(_, _)
Sum(f, S) ==
    IF S = {} THEN 0
    ELSE LET x == CHOOSE y \in S : TRUE IN f[x] + Sum(f, S \ {x})

\* t is a decimal numeral (an optional '+', then digits) of the number n.
Denotes(t, n) ==
    \E d \in {t} \cup (IF t # <<>> /\ Head(t) = "+" THEN {Tail(t)} ELSE {}) :
        /\ d # <<>>
        /\ \A i \in 1..Len(d) : d[i] \in {"0", "1", "2", "3", "4"}
        /\ n = Sum([i \in 1..Len(d) |->
                       Pow10(Len(d) - i)
                           * (CHOOSE v \in 0..4 : DigitOf(d[i]) = v)],
                   1..Len(d))

\* C10: encrypt_additional_params returns Ok exactly when the aead
\* argument is absent or is a numeral of some n with
\* 1 <= n <= |ALGORITHMS|, and then returns ALGORITHMS[n-1] (the first
\* algorithm when absent); everything else is an error, never an index
\* out of range.
C10_AeadChoice ==
    (fn = "params" /\ Returned) =>
        LET Accepted ==
                {n \in 1..Len(ALGORITHMS) :
                    \/ ~aead.present /\ n = 1
                    \/ aead.present /\ aead.has_value
                          /\ Denotes(aead.text, n)}
        IN  /\ result \in {"Ok", "Err"}
            /\ result = "Ok" <=> Accepted # {}
            /\ result = "Ok" => Accepted = {n \in 1..3 : ALGORITHMS[n] = chosen}
            /\ result = "Err" => chosen = None

\* The last algorithm chosen by its ordinal.
C10_Witness ==
    /\ fn = "params"
    /\ result = "Ok"
    /\ aead.text = <<"0", "3">>
    /\ chosen = ALGORITHMS[3]

\* A raw key has been handed to the call (an argument of the pipelines,
\* the password or the keyfile bytes in encrypt_file).
RawKeyGiven == secrets["raw_key"] # "none"

\* C11: an encryption call given an empty raw key fails with a usage
\* error: no key is derived from the empty input, nothing is written to
\* the output, and the call does not return Ok.
C11_EmptyKeyRejected ==
    (fn \in {"memory", "stream", "file"} /\ RawKeyGiven /\ raw_key = <<>>) =>
        /\ IsNil(key)
        /\ output = <<>>
        /\ Returned => result = "Err"

\* The steps that derive the key, build the cipher and sign the header.
SetupErrors == {"init", "argon2_hash", "new_cipher", "sign"}

\* C12 as stated: in both pipelines the header is written only after key
\* derivation and signing succeeded, the header is in the sink before any
\* plaintext is encrypted, and a failure of KDF, cipher construction or
\* signing leaves the sink empty.
C12_HeaderBeforeEncryption ==
    Pipeline(fn) =>
        /\ output # <<>> => (~IsNil(key) /\ ~IsNil(signature))
        /\ (bench = "WriteToFilesystem" /\ emitted # <<>>) =>
              (output # <<>> /\ output[1] = HeaderItem(header))
        /\ error \in SetupErrors => output = <<>>

\* C12 as amended: in both pipelines the header is written only after key
\* derivation and signing succeeded, and a failure of KDF, cipher
\* construction or signing leaves the sink empty with nothing encrypted;
\* in stream mode the header is in the sink before any plaintext is
\* encrypted; in memory mode the one-shot encryption comes first and the
\* header is written after it.
C12_HeaderAfterSetup ==
    Pipeline(fn) =>
        /\ output # <<>> =>
              /\ ~IsNil(key)
              /\ ~IsNil(signature)
              /\ signature = sign(header, key)
              /\ output[1] = HeaderItem(header)
        /\ (fn = "stream" /\ bench = "WriteToFilesystem" /\ emitted # <<>>) =>
              (output # <<>> /\ output[1] = HeaderItem(header))
        /\ (fn = "memory" /\ output # <<>>) => emitted # <<>>
        /\ error \in SetupErrors => (output = <<>> /\ emitted = <<>>)

\* Memory mode about to write: the plaintext is encrypted and the sink is
\* still empty.
C12_Witness ==
    /\ fn = "memory"
    /\ pc = "write"
    /\ bench = "WriteToFilesystem"
    /\ emitted # <<>>
    /\ ~IsNil(signature)
    /\ output = <<>>

\* The steps of encrypt_bytes_memory_mode that write to the sink.
WriteErrors == {"write_header", "write_all"}

\* C13 as stated: in encrypt_bytes_memory_mode the sink holds nothing or
\* the whole container (header, signature, ciphertext), and a failure of
\* key derivation, cipher construction, signing or encryption returns an
\* error with the sink empty.
C13_NoPartialOutput ==
    fn = "memory" =>
        /\ output = <<>> \/ (emitted # <<>> /\ output = Container)
        /\ error \in {"argon2_hash", "new_cipher", "sign", "encrypt"} =>
              (result = "Err" /\ output = <<>>)

\* C13 as amended: in encrypt_bytes_memory_mode a failure of key
\* derivation, cipher construction, signing or encryption returns an
\* error with the sink empty, for every algorithm; a call that returns Ok
\* with writing enabled leaves the whole container; only a failure of a
\* write itself leaves a proper prefix of the container (the header and
\* signature without the ciphertext).
C13_PartialOnlyOnWriteFailure ==
    fn = "memory" =>
        /\ error \in {"argon2_hash", "new_cipher", "sign", "encrypt"} =>
              (result = "Err" /\ output = <<>>)
        /\ error \notin WriteErrors =>
              (output = <<>> \/ (emitted # <<>> /\ output = Container))
        /\ error \in WriteErrors =>
              /\ result = "Err"
              /\ IsPrefix(output, Container)
              /\ output # Container
        /\ (result = "Ok" /\ bench = "WriteToFilesystem") =>
              output = Container

\* The ciphertext write failed after the header and signature were
\* written.
C13_Witness ==
    /\ fn = "memory"
    /\ result = "Err"
    /\ error = "write_all"
    /\ emitted # <<>>
    /\ output = <<HeaderItem(header), SignatureItem(signature)>>

\* The steps of either pipeline that operate on the sink.
SinkErrors == {"write_header", "write_all", "write_block", "flush"}

\* C14: when the write flag is not WriteToFilesystem, neither pipeline
\* operates on the sink: nothing is written, nothing is flushed and no
\* sink operation fails, at every point of the call; and a call that
\* returns Ok has still derived the key, signed the header and encrypted
\* every block it read (the whole plaintext, in memory mode).
C14_NoSinkUseWhenWriteOff ==
    (Pipeline(fn) /\ bench # "WriteToFilesystem") =>
        /\ output = <<>>
        /\ ~flushed
        /\ error \notin SinkErrors
        /\ result = "Ok" =>
              /\ ~IsNil(key)
              /\ signature = sign(header, key)
              /\ Len(emitted) >= 1
              /\ fn = "memory" =>
                    emitted = <<encrypt(algorithm, key, nonce, data)>>
              /\ fn = "stream" =>
                    /\ Len(emitted) = Len(blocks)
                    /\ Len(calls) = Len(blocks)
                    /\ calls[Len(calls)] = "encrypt_last"

\* A stream-mode call with writing off returned Ok after encrypting two
\* blocks, with the sink untouched.
C14_Witness ==
    /\ fn = "stream"
    /\ bench # "WriteToFilesystem"
    /\ result = "Ok"
    /\ Len(emitted) = 2
    /\ output = <<>>
    /\ ~flushed

\* The number of encrypt_next calls made so far.
NextCount ==
    Cardinality({i \in 1..Len(calls) : calls[i] = "encrypt_next"})

\* The block loop of encrypt_bytes_stream_mode is bounded by the input:
\* at most one encrypt_next per BLOCK_SIZE bytes, at most one read more
\* than that, and no read after a read of fewer than BLOCK_SIZE bytes.
LoopBounded ==
    fn = "stream" =>
        /\ NextCount * BLOCK_SIZE <= Len(data)
        /\ NextCount * BLOCK_SIZE <= pos
        /\ reads <= (Len(data) \div BLOCK_SIZE) + 1
        /\ Len(calls) <= reads
        /\ (pc = "read" /\ result = "running" /\ reads > 0) =>
              read_count = BLOCK_SIZE
        /\ result = "Ok" =>
              (calls # <<>> /\ calls[Len(calls)] = "encrypt_last")

\* C15: with a reader that returns 0 at the end of the input,
\* encrypt_bytes_stream_mode terminates on every input: every call
\* eventually returns (Ok after encrypt_last, or an error), having made at
\* most one encrypt_next per BLOCK_SIZE bytes of input and no read after
\* a read that returned fewer than BLOCK_SIZE bytes.
C15_StreamTerminates ==
    /\ []LoopBounded
    /\ (fn = "stream") ~> (fn = "stream" /\ Returned)

\* A call on an input of two whole blocks returned Ok after two
\* encrypt_next, the encrypt_last of the empty third read, and three
\* reads.
C15_Witness ==
    /\ fn = "stream"
    /\ result = "Ok"
    /\ Len(data) = 2 * BLOCK_SIZE
    /\ reads = 3
    /\ calls = <<"encrypt_next", "encrypt_next", "encrypt_last">>

\* The two texts of a round of the password loop are the same.
Matching(pair) == pair[1] = pair[2]

\* C16: in encrypt_file without a keyfile the raw key is set only from a
\* password entered identically at the two prompts of one round: every
\* round before the last mismatched (a mismatch re-prompts, the first
\* match ends the loop); while no round has matched there is no raw key,
\* no derived key, no ciphertext and no output; and once the raw key is
\* set it is the bytes of the matching pair, the last one entered.
C16_KeyFromMatchingPair ==
    (fn = "file" /\ keyfile = "") =>
        LET n == Len(prompts) IN
        /\ \A i \in 1..n : i < n => ~Matching(prompts[i])
        /\ (n = 0 \/ ~Matching(prompts[n])) =>
              /\ ~RawKeyGiven
              /\ IsNil(key)
              /\ emitted = <<>>
              /\ output = <<>>
              /\ result # "Ok"
              /\ result = "running" => pc \in {"start", "prompt"}
        /\ (RawKeyGiven \/ ~IsNil(key) \/ emitted # <<>> \/ output # <<>>) =>
              /\ n >= 1
              /\ Matching(prompts[n])
              /\ raw_key = as_bytes(prompts[n][1])
              /\ ~IsNil(key) => key.pbkdf2_raw = raw_key

\* A mismatching round was followed by a matching one, and the call
\* returned Ok with the key derived from the second round's password.
C16_Witness ==
    /\ fn = "file"
    /\ keyfile = ""
    /\ result = "Ok"
    /\ Len(prompts) = 2
    /\ ~Matching(prompts[1])
    /\ Matching(prompts[2])
    /\ raw_key = as_bytes(prompts[2][1])
    /\ output # <<>>

====
